---- MODULE Spec2Model ----
(***************************************************************************)
(* Streaming Response Assembler (AgentManager.chat_with_agent_stream) and  *)
(* Rubric Scoring Engine (score_interview).                                *)
(*                                                                         *)
(* Text is a sequence of one-character strings.  A frame is the dict that  *)
(* the generator serialises with json.dumps: {"t": .., "d"/"e": .., "tid"}.*)
(***************************************************************************)
EXTENDS Integers, Sequences, FiniteSets, TLC

VARIABLES
    pc,              \* position of the generator chat_with_agent_stream
    agent,           \* registry entry of agent_id and client: "ok", "missing",
                     \* "uninitialized" (no assistant_id), "no_client"
    by_sentence,     \* argument buffer_by_sentence
    thread_id,       \* local thread_id (argument, then the created thread's id)
    calls,           \* calls made on the completion collaborator, in order
    worker,          \* state of stream_thread (process_stream)
    stream_error,    \* stream_error[0]
    event_queue,     \* event_queue, oldest item first
    produced,        \* events the run stream has delivered to the worker so far
    consumed,        \* events the generator has taken from event_queue so far
    buffer,          \* local buffer
    frames,          \* frames yielded so far
    future,          \* the call the generator has handed to the executor
                     \* (run_in_executor) and its outcome: <<>> when none,
                     \* else <<call, "pending" or what the call gave>>
    pending,         \* what the generator, suspended at a yield, has still
                     \* to run for the item it took from event_queue
    raised,          \* exception that left the generator, or "none"
    sc_pc,           \* position of score_interview
    sc_key,          \* settings.openai_api_key is set
    sc_requests,     \* completion requests issued by score_interview
    sc_content,      \* response.choices[0].message.content
    sc_result,       \* what score_interview returned or raised
    sc_messages,     \* request.messages
    sc_transcript,   \* conversation_text
    invocations      \* the locals of each of two invocations of
                     \* chat_with_agent_stream that one event loop serves

vars == <<pc, agent, by_sentence, thread_id, calls, worker, stream_error,
          event_queue, produced, consumed, buffer, frames, pending, future,
          raised, sc_pc, sc_key, sc_requests, sc_content, sc_result, sc_messages,
          sc_transcript, invocations>>

streamVars == <<pc, agent, by_sentence, thread_id, calls, worker, stream_error,
                event_queue, produced, consumed, buffer, frames, pending,
                future, raised>>

scoreVars == <<sc_pc, sc_key, sc_requests, sc_content, sc_result, sc_messages,
               sc_transcript>>

(***************************************************************************)
(* Bounds of the model                                                     *)
(***************************************************************************)
\* events the run stream delivers in one invocation (Spec)
MaxEvents == 3
\* length of the single delta text drawn from the whole alphabet (SegSpec)
MaxTextLen == 4

(***************************************************************************)
(* Program constants                                                       *)
(***************************************************************************)
MAX_BUFFER_SIZE == 30

\* '.!?,;:\n' of _extract_complete_segments and _get_remaining_buffer
BoundaryChars == {".", "!", "?", ",", ";", ":", "\n"}

\* ' \n\t' of _extract_complete_segments and _get_remaining_buffer
SpaceChars == {" ", "\n", "\t"}

\* characters removed by str.strip() with no argument, as far as the alphabet goes
StripChars == {" ", "\n", "\t", "\r"}

None == "None"

(***************************************************************************)
(* Text segmentation                                                       *)
(***************************************************************************)
\* Python slice s[a:b] for 0 <= a and b <= len(s); empty when a >= b.
Slice(s, a, b) == SubSeq(s, a + 1, b)

\* The loop body of _extract_complete_segments at 0-based index i, carried
\* through the rest of the buffer: st = [segments, last_idx].
RECURSIVE ScanSegments(_, _, _)
ScanSegments(buf, i, st) ==
    IF i >= Len(buf) THEN st.segments
    ELSE IF buf[i + 1] \in BoundaryChars
         THEN IF i + 1 < Len(buf) /\ buf[i + 2] \in SpaceChars
              THEN ScanSegments(buf, i + 1,
                       [segments |-> Append(st.segments, Slice(buf, st.last_idx, i + 2)),
                        last_idx |-> i + 2])
              ELSE IF i + 1 >= Len(buf)
                   THEN ScanSegments(buf, i + 1,
                            [segments |-> Append(st.segments, Slice(buf, st.last_idx, i + 1)),
                             last_idx |-> i + 1])
                   ELSE ScanSegments(buf, i + 1, st)
         ELSE ScanSegments(buf, i + 1, st)

\* the scan with the look-ahead at the next character left out: every
\* boundary character closes a segment
RECURSIVE ScanEveryBoundary(_, _, _)
ScanEveryBoundary(buf, i, st) ==
    IF i >= Len(buf) THEN st.segments
    ELSE IF buf[i + 1] \in BoundaryChars
         THEN ScanEveryBoundary(buf, i + 1,
                  [segments |-> Append(st.segments, Slice(buf, st.last_idx, i + 1)),
                   last_idx |-> i + 1])
         ELSE ScanEveryBoundary(buf, i + 1, st)

extract_every_boundary(buf) ==
    ScanEveryBoundary(buf, 0, [segments |-> <<>>, last_idx |-> 0])

extract_complete_segments(buf) ==
    ScanSegments(buf, 0, [segments |-> <<>>, last_idx |-> 0])

\* The reverse loop of _get_remaining_buffer from 0-based index i down to 0.
RECURSIVE ScanRemaining(_, _)
ScanRemaining(buf, i) ==
    IF i < 0 THEN buf
    ELSE IF buf[i + 1] \in BoundaryChars
         THEN IF i + 1 < Len(buf) /\ buf[i + 2] \in SpaceChars
              THEN Slice(buf, i + 2, Len(buf))
              ELSE IF i + 1 >= Len(buf)
                   THEN <<>>
                   ELSE ScanRemaining(buf, i - 1)
         ELSE ScanRemaining(buf, i - 1)

get_remaining_buffer(buf) == ScanRemaining(buf, Len(buf) - 1)

\* buffer.strip() is non-empty
StripNonEmpty(buf) == \E i \in 1..Len(buf) : buf[i] \notin StripChars

(***************************************************************************)
(* Events of the run stream and frames of the output sequence              *)
(***************************************************************************)
TextItem(text) == [type |-> "text", value |-> text]
ImageItem == [type |-> "image_file"]

MessageCreated == [type |-> "thread.message.created"]
ContentDelta(content) == [type |-> "thread.message.delta", content |-> content]
RunCompleted == [type |-> "thread.run.completed"]
\* last_error is <<>> when the run carries none, else <<the error>>
RunFailed(last_error) == [type |-> "thread.run.failed", last_error |-> last_error]
RunCreated == [type |-> "thread.run.created"]

\* errors the collaborator reports: a run's last_error, and an exception of
\* the stream iterator (its str() is what the worker enqueues)
LastErrors == {[code |-> "rate_limit_exceeded", message |-> "Rate limit reached"]}
StreamErrors == {"Connection error."}

ThreadStarted(tid) == [t |-> "s", tid |-> tid]
Chunk(text, tid) == [t |-> "c", d |-> text, tid |-> tid]
Done(tid) == [t |-> "d", tid |-> tid]
Error(msg, tid) == [t |-> "e", e |-> msg, tid |-> tid]

\* thread ids: the request's thread_id (None when absent) and the ids
\* client.beta.threads.create can return
GivenThreadIds == {None, "thread_old"}
NewThreadIds == {"thread_new"}

\* sample delta texts of the protocol specification
Hello == <<"H", "e", "l", "l", "o", ",", " ", "w", "o", "r", "l", "d", ".", " ",
           "H", "o", "w", " ", "a", "r", "e", " ", "y", "o", "u", "?">>
Price == <<"P", "r", "i", "c", "e", " ", "i", "s", " ", "3", ".", "1", "4", " ",
           "d", "o", "l", "l", "a", "r", "s">>
Letters(n) == [i \in 1..n |-> "x"]

(***************************************************************************)
(* AgentManager: the registry and the client                               *)
(***************************************************************************)
\* initialize, lines 53-65, with the key configured: the client is set.  An
\* entry that lacked only the client is ready; a missing entry stays missing
\* and one without assistant_id stays so (without the key initialize raises
\* and changes nothing).
Initialize ==
    /\ agent = "no_client"
    /\ agent' = "ok"
    /\ UNCHANGED <<pc, by_sentence, thread_id, calls, worker, stream_error,
                   event_queue, produced, consumed, buffer, frames, raised>>
    /\ UNCHANGED pending
    /\ UNCHANGED future
    /\ UNCHANGED scoreVars
    /\ UNCHANGED invocations

\* create_all_agents, lines 126-187: the client is initialised when it was
\* not, and the entry of a configured agent is replaced by the loaded or
\* created assistant, or, when loading or creating raised, by a placeholder
\* whose assistant_id is the configured one, None when none is configured.
CreateAllAgents ==
    /\ \E entry \in {"ok", "uninitialized"} : agent' = entry
    /\ UNCHANGED <<pc, by_sentence, thread_id, calls, worker, stream_error,
                   event_queue, produced, consumed, buffer, frames, raised>>
    /\ UNCHANGED pending
    /\ UNCHANGED future
    /\ UNCHANGED scoreVars
    /\ UNCHANGED invocations

(***************************************************************************)
(* chat_with_agent_stream: the generator                                   *)
(***************************************************************************)
\* line 318 up to the await: with no thread id given the generator hands
\* threads.create to the executor and waits for it; with one it goes on
Submitted == IF thread_id = None THEN <<"threads.create", "pending">> ELSE <<>>

\* Validate with the checks of _get_validated_agent left out
Validate_NoCheck ==
    /\ pc = "start"
    /\ IF agent = "no_client"
       THEN pc' = "raised" /\ raised' = "OpenAIKeyNotConfiguredError"
                           /\ future' = future
       ELSE pc' = "validated" /\ raised' = raised /\ future' = Submitted
    /\ UNCHANGED <<agent, by_sentence, thread_id, calls, worker, stream_error,
                   event_queue, produced, consumed, buffer, frames>>
    /\ UNCHANGED pending
    /\ UNCHANGED scoreVars
    /\ UNCHANGED invocations

\* lines 311-318: _get_validated_agent and _validate_client_initialized, and
\* after them, when no thread id was given, the call of threads.create handed
\* to the executor, on which the generator waits
Validate ==
    /\ pc = "start"
    /\ IF agent = "missing"
       THEN pc' = "raised" /\ raised' = "AgentNotFoundError"
                           /\ future' = future
       ELSE IF agent = "uninitialized"
            THEN pc' = "raised" /\ raised' = "AgentNotInitializedError"
                                /\ future' = future
            ELSE IF agent = "no_client"
                 THEN pc' = "raised" /\ raised' = "OpenAIKeyNotConfiguredError"
                                     /\ future' = future
                 ELSE pc' = "validated" /\ raised' = raised
                                        /\ future' = Submitted
    /\ UNCHANGED <<agent, by_sentence, thread_id, calls, worker, stream_error,
                   event_queue, produced, consumed, buffer, frames>>
    /\ UNCHANGED pending
    /\ UNCHANGED scoreVars
    /\ UNCHANGED invocations

\* the call handed to the executor has run to its end
Returned == Len(future) = 2 /\ future[2] # "pending"

\* lines 318-321 and 329-336, the executor's thread: it makes the call it was
\* handed, which returns or raises.  The generator is not running meanwhile,
\* and a call that was started is made even when the generator was closed.
RunInExecutor ==
    /\ Len(future) = 2
    /\ future[2] = "pending"
    /\ IF future[1] = "threads.create"
       THEN \/ \E tid \in NewThreadIds :
                 /\ calls' = Append(calls, [op |-> "threads.create", tid |-> tid])
                 /\ future' = <<future[1], tid>>
            \/ /\ calls' = Append(calls, [op |-> "threads.create", tid |-> None])
               /\ future' = <<future[1], "raised">>
       ELSE /\ calls' = Append(calls, [op |-> "messages.create", tid |-> thread_id])
            /\ \E outcome \in {"returned", "raised"} :
                 future' = <<future[1], outcome>>
    /\ UNCHANGED <<pc, agent, by_sentence, thread_id, worker, stream_error,
                   event_queue, produced, consumed, buffer, frames, raised>>
    /\ UNCHANGED pending
    /\ UNCHANGED scoreVars
    /\ UNCHANGED invocations

\* StartThread with the yield of line 326 left out
StartThread_NoYield ==
    /\ pc = "validated"
    /\ IF thread_id = None
       THEN /\ Returned
            /\ future' = <<>>
            /\ IF future[2] = "raised"
               THEN /\ pc' = "raised"
                    /\ raised' = "APIError"
                    /\ UNCHANGED thread_id
               ELSE /\ thread_id' = future[2]
                    /\ pc' = "started"
                    /\ raised' = raised
       ELSE /\ pc' = "started"
            /\ UNCHANGED <<thread_id, future, raised>>
    /\ UNCHANGED <<agent, by_sentence, calls, worker, stream_error, event_queue,
                   produced, consumed, buffer, frames>>
    /\ UNCHANGED pending
    /\ UNCHANGED scoreVars
    /\ UNCHANGED invocations

\* lines 317-326.  With no thread id given the generator is resumed at the
\* await of line 318 once threads.create has run: the call raised, which
\* leaves the generator, or it gave the thread whose id is taken (322) and
\* yielded (326).  With a thread id given there is no await: the id is
\* yielded.
StartThread ==
    /\ pc = "validated"
    /\ IF thread_id = None
       THEN /\ Returned
            /\ future' = <<>>
            /\ IF future[2] = "raised"
               THEN /\ pc' = "raised"
                    /\ raised' = "APIError"
                    /\ UNCHANGED <<thread_id, frames>>
               ELSE /\ thread_id' = future[2]
                    /\ frames' = Append(frames, ThreadStarted(future[2]))
                    /\ pc' = "started"
                    /\ raised' = raised
       ELSE /\ frames' = Append(frames, ThreadStarted(thread_id))
            /\ pc' = "started"
            /\ UNCHANGED <<thread_id, future, raised>>
    /\ UNCHANGED <<agent, by_sentence, calls, worker, stream_error,
                   event_queue, produced, consumed, buffer>>
    /\ UNCHANGED pending
    /\ UNCHANGED scoreVars
    /\ UNCHANGED invocations

\* lines 328-329 up to the await: resumed after the yield of line 326, the
\* generator hands messages.create to the executor and waits for it
AddMessage ==
    /\ pc = "started"
    /\ pc' = "adding"
    /\ future' = <<"messages.create", "pending">>
    /\ UNCHANGED <<agent, by_sentence, thread_id, calls, worker, stream_error,
                   event_queue, produced, consumed, buffer, frames, raised>>
    /\ UNCHANGED pending
    /\ UNCHANGED scoreVars
    /\ UNCHANGED invocations

\* lines 329-336: the generator is resumed at the await once messages.create
\* has run; a call that raised leaves the generator (the await is outside
\* the try of line 373)
MessageAdded ==
    /\ pc = "adding"
    /\ Returned
    /\ future' = <<>>
    /\ IF future[2] = "raised"
       THEN pc' = "raised" /\ raised' = "APIError"
       ELSE pc' = "msg_added" /\ raised' = raised
    /\ UNCHANGED <<agent, by_sentence, thread_id, calls, worker, stream_error,
                   event_queue, produced, consumed, buffer, frames>>
    /\ UNCHANGED pending
    /\ UNCHANGED scoreVars
    /\ UNCHANGED invocations

\* lines 343-371: queue, stream_error, thread start, empty buffer
StartWorker ==
    /\ pc = "msg_added"
    /\ event_queue' = <<>>
    /\ stream_error' = None
    /\ worker' = "started"
    /\ buffer' = <<>>
    /\ pc' = "loop"
    /\ UNCHANGED <<agent, by_sentence, thread_id, calls, produced, consumed,
                   frames, raised>>
    /\ UNCHANGED pending
    /\ UNCHANGED future
    /\ UNCHANGED scoreVars
    /\ UNCHANGED invocations

(***************************************************************************)
(* process_stream: the worker thread                                       *)
(***************************************************************************)
is_alive == worker \in {"started", "streaming"}

\* lines 349-353: open the streaming run
WorkerOpenRun ==
    /\ worker = "started"
    /\ calls' = Append(calls, [op |-> "runs.create", tid |-> thread_id])
    /\ worker' = "streaming"
    /\ UNCHANGED <<pc, agent, by_sentence, thread_id, stream_error, event_queue,
                   produced, consumed, buffer, frames, raised>>
    /\ UNCHANGED pending
    /\ UNCHANGED future
    /\ UNCHANGED scoreVars
    /\ UNCHANGED invocations

\* WorkerPut on a queue that hands out the newest item first
WorkerPut_Lifo(events, limit) ==
    /\ worker = "streaming"
    /\ Len(produced) < limit
    /\ \E ev \in events :
         /\ produced' = Append(produced, ev)
         /\ event_queue' = <<<<"event", ev>>>> \o event_queue
    /\ UNCHANGED <<pc, agent, by_sentence, thread_id, calls, worker, stream_error,
                   consumed, buffer, frames, raised>>
    /\ UNCHANGED pending
    /\ UNCHANGED future
    /\ UNCHANGED scoreVars
    /\ UNCHANGED invocations

\* lines 355-359: the stream delivers one more event, which is enqueued
WorkerPut(events, limit) ==
    /\ worker = "streaming"
    /\ Len(produced) < limit
    /\ \E ev \in events :
         /\ produced' = Append(produced, ev)
         /\ event_queue' = Append(event_queue, <<"event", ev>>)
    /\ UNCHANGED <<pc, agent, by_sentence, thread_id, calls, worker, stream_error,
                   consumed, buffer, frames, raised>>
    /\ UNCHANGED pending
    /\ UNCHANGED future
    /\ UNCHANGED scoreVars
    /\ UNCHANGED invocations

\* line 360: the stream is exhausted
WorkerDone ==
    /\ worker = "streaming"
    /\ event_queue' = Append(event_queue, <<"done", None>>)
    /\ worker' = "finished"
    /\ UNCHANGED <<pc, agent, by_sentence, thread_id, calls, stream_error,
                   produced, consumed, buffer, frames, raised>>
    /\ UNCHANGED pending
    /\ UNCHANGED future
    /\ UNCHANGED scoreVars
    /\ UNCHANGED invocations

\* lines 361-364: runs.create or the stream iterator raises.  The thread
\* stays alive until after the put, so a reader of is_alive() and
\* stream_error[0] sees the same as if the three steps were one.
WorkerRaise ==
    /\ is_alive
    /\ \E msg \in StreamErrors :
         /\ stream_error' = msg
         /\ event_queue' = Append(event_queue, <<"error", msg>>)
    /\ worker' = "failed"
    /\ UNCHANGED <<pc, agent, by_sentence, thread_id, calls, produced, consumed,
                   buffer, frames, raised>>
    /\ UNCHANGED pending
    /\ UNCHANGED future
    /\ UNCHANGED scoreVars
    /\ UNCHANGED invocations

(***************************************************************************)
(* chat_with_agent_stream: the consuming loop, lines 374-498               *)
(***************************************************************************)
\* The generator runs from the item it took at line 378 to its next yield
\* and is suspended there; on resumption it runs to the yield after that,
\* or back to line 378, or out of the loop.  What it has still to run for
\* the item is a sequence of steps: an assignment to buffer, a yield, or
\* the end of the generator.  The wait of line 378 is a blocking call, not
\* a suspension.  The wait giving up (WaitTimeout) and the look at the
\* worker that follows (AfterTimeout) are two steps, the worker being free
\* to run in between.
SetBuffer(buf) == [op |-> "buffer", arg |-> buf]
Yield(frame) == [op |-> "yield", arg |-> frame]
Leave == [op |-> "leave", arg |-> <<>>]

YieldsOf(texts, tid) == [i \in 1..Len(texts) |-> Yield(Chunk(texts[i], tid))]

\* the value buffer has after the steps, having been buf before them
RECURSIVE BufferAfter(_, _)
BufferAfter(steps, buf) ==
    IF Len(steps) = 0 THEN buf
    ELSE IF steps[Len(steps)].op = "buffer"
         THEN steps[Len(steps)].arg
         ELSE BufferAfter(SubSeq(steps, 1, Len(steps) - 1), buf)

\* ProcessText without the forced flush of lines 444-447
ProcessText_NoForcedFlush(text, buf, tid) ==
    IF by_sentence
    THEN LET added == buf \o text
         IN  <<SetBuffer(added)>>
             \o YieldsOf(extract_complete_segments(added), tid)
             \o <<SetBuffer(get_remaining_buffer(added))>>
    ELSE <<Yield(Chunk(text, tid))>>

\* ProcessText taking the buffering branch whatever buffer_by_sentence is
ProcessText_AlwaysBuffered(text, buf, tid) ==
    LET added == buf \o text
        sentences == extract_complete_segments(added)
        rest == get_remaining_buffer(added)
    IN  <<SetBuffer(added)>> \o YieldsOf(sentences, tid) \o <<SetBuffer(rest)>>
        \o (IF Len(rest) > MAX_BUFFER_SIZE
            THEN <<Yield(Chunk(rest, tid)), SetBuffer(<<>>)>>
            ELSE <<>>)

\* lines 429-450: one text value.  Line 434 appends it to buffer, line 439
\* yields once per segment, line 442 keeps the rest, lines 445-447 yield the
\* rest and clear buffer when it is longer than MAX_BUFFER_SIZE; line 450
\* yields the value as it is when buffer_by_sentence is off.
ProcessText(text, buf, tid) ==
    IF by_sentence
    THEN LET added == buf \o text
             sentences == extract_complete_segments(added)
             rest == get_remaining_buffer(added)
         IN  <<SetBuffer(added)>> \o YieldsOf(sentences, tid) \o <<SetBuffer(rest)>>
             \o (IF Len(rest) > MAX_BUFFER_SIZE
                 THEN <<Yield(Chunk(rest, tid)), SetBuffer(<<>>)>>
                 ELSE <<>>)
    ELSE <<Yield(Chunk(text, tid))>>

\* a text item whose value is None: texts are tuples of characters, and the
\* absent value is the one tuple that holds no character but the word None
NoValue == <<None>>

\* line 430, text_chunk[:100], raises TypeError when text.value is None
RaisesOnText(value) == value = NoValue

\* lines 424-452: the loop over delta.content from item i on.  An exception
\* raised for an item is caught at lines 459-460 and logged: what was yielded
\* for the items before it stands, the items after it are skipped, and the
\* consuming loop goes on.
RECURSIVE ProcessContent(_, _, _, _)
ProcessContent(content, i, buf, tid) ==
    IF i > Len(content) THEN <<>>
    ELSE IF content[i].type = "text"
         THEN IF RaisesOnText(content[i].value)
              THEN <<>>
              ELSE LET one == ProcessText(content[i].value, buf, tid)
                   IN  one \o ProcessContent(content, i + 1, BufferAfter(one, buf), tid)
         ELSE ProcessContent(content, i + 1, buf, tid)

\* lines 380-387 and 475-483: flush what is left, then the done signal, then
\* the break
Completion(buf, tid) ==
    (IF by_sentence /\ StripNonEmpty(buf) THEN <<Yield(Chunk(buf, tid))>> ELSE <<>>)
    \o <<Yield(Done(tid)), Leave>>

\* lines 464-469: the message of a failed run
ErrorMsg(last_error) ==
    IF last_error = <<>>
    THEN <<"Run failed">>
    ELSE <<last_error[1].code, ": ", last_error[1].message>>

\* The generator runs the steps up to and including the first yield: the
\* result is where it stands then, with buffer, the frames and the steps left.
RECURSIVE RunToYield(_, _, _)
RunToYield(steps, buf, out) ==
    IF Len(steps) = 0
    THEN [pc |-> "loop", buffer |-> buf, frames |-> out, pending |-> <<>>]
    ELSE IF Head(steps).op = "buffer"
         THEN RunToYield(Tail(steps), Head(steps).arg, out)
         ELSE IF Head(steps).op = "yield"
              THEN [pc |-> "yielded", buffer |-> buf,
                    frames |-> Append(out, Head(steps).arg), pending |-> Tail(steps)]
              ELSE [pc |-> "ended", buffer |-> buf, frames |-> out, pending |-> <<>>]

Run(steps) ==
    LET r == RunToYield(steps, buffer, frames)
    IN  /\ pc' = r.pc
        /\ buffer' = r.buffer
        /\ frames' = r.frames
        /\ pending' = r.pending

Head1 == Head(event_queue)

\* line 378 returned an item
Got(kind) ==
    /\ pc = "loop"
    /\ event_queue # <<>>
    /\ Head1[1] = kind
    /\ event_queue' = Tail(event_queue)

GotEvent(type) ==
    /\ Got("event")
    /\ Head1[2].type = type
    /\ consumed' = Append(consumed, Head1[2])

\* the consumer asks for the next frame: the generator, suspended at a yield
\* of the loop, runs on
Resume ==
    /\ pc = "yielded"
    /\ Run(pending)
    /\ UNCHANGED <<agent, by_sentence, thread_id, calls, worker, stream_error,
                   event_queue, produced, consumed, raised>>
    /\ UNCHANGED future
    /\ UNCHANGED scoreVars
    /\ UNCHANGED invocations

\* lines 380-387
ConsumeDone ==
    /\ Got("done")
    /\ Run(Completion(buffer, thread_id))
    /\ UNCHANGED <<agent, by_sentence, thread_id, calls, worker, stream_error,
                   produced, consumed, raised>>
    /\ UNCHANGED future
    /\ UNCHANGED scoreVars
    /\ UNCHANGED invocations

\* lines 389-390, caught at 496-498
ConsumeError ==
    /\ Got("error")
    /\ Run(<<Yield(Error(<<Head1[2]>>, thread_id)), Leave>>)
    /\ UNCHANGED <<agent, by_sentence, thread_id, calls, worker, stream_error,
                   produced, consumed, raised>>
    /\ UNCHANGED future
    /\ UNCHANGED scoreVars
    /\ UNCHANGED invocations

\* lines 403-405
ConsumeMessageCreated ==
    /\ GotEvent("thread.message.created")
    /\ UNCHANGED <<pc, agent, by_sentence, thread_id, calls, worker, stream_error,
                   produced, buffer, frames, raised>>
    /\ UNCHANGED pending
    /\ UNCHANGED future
    /\ UNCHANGED scoreVars
    /\ UNCHANGED invocations

\* lines 408-460
ConsumeDelta ==
    /\ GotEvent("thread.message.delta")
    /\ Run(ProcessContent(Head1[2].content, 1, buffer, thread_id))
    /\ UNCHANGED <<agent, by_sentence, thread_id, calls, worker, stream_error,
                   produced, raised>>
    /\ UNCHANGED future
    /\ UNCHANGED scoreVars
    /\ UNCHANGED invocations

\* ConsumeRunFailed without the break of line 472
ConsumeRunFailed_NoBreak ==
    /\ GotEvent("thread.run.failed")
    /\ Run(<<Yield(Error(ErrorMsg(Head1[2].last_error), thread_id))>>)
    /\ UNCHANGED <<agent, by_sentence, thread_id, calls, worker, stream_error,
                   produced, raised>>
    /\ UNCHANGED future
    /\ UNCHANGED scoreVars
    /\ UNCHANGED invocations

\* lines 463-472
ConsumeRunFailed ==
    /\ GotEvent("thread.run.failed")
    /\ Run(<<Yield(Error(ErrorMsg(Head1[2].last_error), thread_id)), Leave>>)
    /\ UNCHANGED <<agent, by_sentence, thread_id, calls, worker, stream_error,
                   produced, raised>>
    /\ UNCHANGED future
    /\ UNCHANGED scoreVars
    /\ UNCHANGED invocations

\* lines 475-483
ConsumeRunCompleted ==
    /\ GotEvent("thread.run.completed")
    /\ Run(Completion(buffer, thread_id))
    /\ UNCHANGED <<agent, by_sentence, thread_id, calls, worker, stream_error,
                   produced, raised>>
    /\ UNCHANGED future
    /\ UNCHANGED scoreVars
    /\ UNCHANGED invocations

\* lines 486-487: any other event type
ConsumeOther ==
    /\ Got("event")
    /\ Head1[2].type \notin {"thread.message.created", "thread.message.delta",
                             "thread.run.failed", "thread.run.completed"}
    /\ consumed' = Append(consumed, Head1[2])
    /\ UNCHANGED <<pc, agent, by_sentence, thread_id, calls, worker, stream_error,
                   produced, buffer, frames, raised>>
    /\ UNCHANGED pending
    /\ UNCHANGED future
    /\ UNCHANGED scoreVars
    /\ UNCHANGED invocations

\* line 378 and 489: the 30 second wait ends with the queue still empty
WaitTimeout ==
    /\ pc = "loop"
    /\ event_queue = <<>>
    /\ pc' = "timedout"
    /\ UNCHANGED <<agent, by_sentence, thread_id, calls, worker, stream_error,
                   event_queue, produced, consumed, buffer, frames, raised>>
    /\ UNCHANGED pending
    /\ UNCHANGED future
    /\ UNCHANGED scoreVars
    /\ UNCHANGED invocations

\* AfterTimeout without the check of line 491: the loop always waits again
AfterTimeout_AlwaysContinue ==
    /\ pc = "timedout"
    /\ pc' = "loop"
    /\ UNCHANGED <<agent, by_sentence, thread_id, calls, worker, stream_error,
                   event_queue, produced, consumed, buffer, frames, raised>>
    /\ UNCHANGED pending
    /\ UNCHANGED future
    /\ UNCHANGED scoreVars
    /\ UNCHANGED invocations

\* lines 490-494, and 496-498 when the worker's error is raised
AfterTimeout ==
    /\ pc = "timedout"
    /\ IF ~is_alive /\ stream_error # None
       THEN Run(<<Yield(Error(<<stream_error>>, thread_id)), Leave>>)
       ELSE /\ pc' = "loop"
            /\ UNCHANGED <<buffer, frames, pending>>
    /\ UNCHANGED <<agent, by_sentence, thread_id, calls, worker, stream_error,
                   event_queue, produced, consumed, raised>>
    /\ UNCHANGED future
    /\ UNCHANGED scoreVars
    /\ UNCHANGED invocations

(***************************************************************************)
(* The assembler under every behaviour of the stream source                *)
(***************************************************************************)
SampleTexts == {Hello, Price, Letters(15), Letters(16), <<" ">>, <<"a", ".", "\n">>}

SourceEvents ==
    {MessageCreated, RunCreated, RunCompleted, RunFailed(<<>>)}
    \cup {RunFailed(<<e>>) : e \in LastErrors}
    \cup {ContentDelta(<<TextItem(text)>>) : text \in SampleTexts}
    \cup {ContentDelta(<<>>), ContentDelta(<<ImageItem, TextItem(<<"o", "k">>)>>)}
    \cup {ContentDelta(<<TextItem(NoValue)>>)}

\* the two invocations and the thread each was called with
PairIds == {1, 2}
PairThread(i) == IF i = 1 THEN "thread_1" ELSE "thread_2"

\* an invocation suspended at the yield of line 326: its thread id has been
\* yielded, process_stream has not been started
PairIdle ==
    [i \in PairIds |->
        [pc |-> "suspended", worker |-> "none", stream_error |-> None,
         event_queue |-> <<>>, produced |-> <<>>, consumed |-> <<>>,
         buffer |-> <<>>, frames |-> <<ThreadStarted(PairThread(i))>>,
         pending |-> <<>>, raised |-> "none"]]

StreamInit ==
    /\ invocations = PairIdle
    /\ pc = "start"
    /\ agent \in {"ok", "missing", "uninitialized", "no_client"}
    /\ by_sentence \in BOOLEAN
    /\ thread_id \in GivenThreadIds
    /\ calls = <<>>
    /\ worker = "none"
    /\ stream_error = None
    /\ event_queue = <<>>
    /\ produced = <<>>
    /\ consumed = <<>>
    /\ buffer = <<>>
    /\ frames = <<>>
    /\ pending = <<>>
    /\ future = <<>>
    /\ raised = "none"

\* interview_router.py: no completion has answered, response is not bound
NoContent == <<>>

ScoreIdle ==
    /\ sc_pc = "idle"
    /\ sc_key = FALSE
    /\ sc_requests = 0
    /\ sc_content = NoContent
    /\ sc_result = None
    /\ sc_messages = <<>>
    /\ sc_transcript = <<>>

Init == StreamInit /\ ScoreIdle

Generator ==
    \/ Validate
    \/ StartThread
    \/ AddMessage
    \/ MessageAdded
    \/ StartWorker
    \/ Resume
    \/ ConsumeDone
    \/ ConsumeError
    \/ ConsumeMessageCreated
    \/ ConsumeDelta
    \/ ConsumeRunFailed
    \/ ConsumeRunCompleted
    \/ ConsumeOther
    \/ WaitTimeout
    \/ AfterTimeout

Next ==
    \/ Initialize
    \/ CreateAllAgents
    \/ Generator
    \/ RunInExecutor
    \/ WorkerOpenRun
    \/ WorkerPut(SourceEvents, MaxEvents)
    \/ WorkerDone
    \/ WorkerRaise

Spec == Init /\ [][Next]_vars

(***************************************************************************)
(* score_interview                                                         *)
(***************************************************************************)
\* fields of RawScores and of WeightedPoints
Categories == {"opening_rapport", "discovery_qualification", "value_messaging",
               "objection_handling", "trial_advancement", "listening_adaptability",
               "professionalism"}

\* A value as json.loads returns it, with its Python type: int, str, list,
\* dict, NoneType.  (Numbers with a fraction and booleans are left out.)
JInt(n) == [json |-> "int", v |-> n]
JStr(s) == [json |-> "str", v |-> s]
JList(items) == [json |-> "list", v |-> items]
JDict(fields) == [json |-> "dict", v |-> fields]
JNone == [json |-> "NoneType", v |-> <<>>]

\* the strings of the responses that spell an integer, and the integer
Numerals == {"4", "82"}
NumeralValue(s) == IF s = "4" THEN 4 ELSE 82

\* float(x) of lines 305 and 307, and a pydantic int field: an int, or a str
\* that spells a number, converts; any other str, a list, a dict and None
\* raise
Converts(x) == x.json = "int" \/ (x.json = "str" /\ x.v \in Numerals)
Number(x) == IF x.json = "int" THEN x.v ELSE NumeralValue(x.v)

\* a pydantic str field takes a str only
ValidStr(x) == x.json = "str"

\* a pydantic List[str] field takes a list of str only
ValidStrList(x) == x.json = "list" /\ \A i \in 1..Len(x.v) : ValidStr(x.v[i])

\* d.get(key, default) on a dict
Get(d, key, default) == IF key \in DOMAIN d.v THEN d.v[key] ELSE default

\* RawScores(**d), WeightedPoints(**d): d is a dict, every field is present
\* and converts to int
ValidCategoryModel(d) ==
    /\ d.json = "dict"
    /\ Categories \subseteq DOMAIN d.v
    /\ \A c \in Categories : Converts(d.v[c])

\* Deduction(**d): d is a dict, reason is a str and points converts to int
ValidDeduction(d) ==
    /\ d.json = "dict"
    /\ {"reason", "points"} \subseteq DOMAIN d.v
    /\ ValidStr(d.v["reason"])
    /\ Converts(d.v["points"])

\* line 300: the comprehension iterates over a list; a str or a dict that
\* holds nothing gives no item; anything else cannot be unpacked
ValidDeductions(x) ==
    \/ x.json = "list" /\ \A i \in 1..Len(x.v) : ValidDeduction(x.v[i])
    \/ x.json = "str" /\ x.v = ""
    \/ x.json = "dict" /\ DOMAIN x.v = {}

DeductionItems(x) == IF x.json = "list" THEN x.v ELSE <<>>

\* lines 298-312 raise nothing: score_data is a dict, the subscripts of
\* lines 298-299 find their keys, and every value passes the conversion or
\* the validation of its field
Builds(score_data) ==
    /\ score_data.json = "dict"
    /\ "raw_scores" \in DOMAIN score_data.v
    /\ ValidCategoryModel(score_data.v["raw_scores"])
    /\ "weighted_points" \in DOMAIN score_data.v
    /\ ValidCategoryModel(score_data.v["weighted_points"])
    /\ ValidDeductions(Get(score_data, "deductions", JList(<<>>)))
    /\ Converts(Get(score_data, "pre_deduction_total", JInt(0)))
    /\ Converts(Get(score_data, "final_score", JInt(0)))
    /\ ValidStr(Get(score_data, "tier", JStr("Developing")))
    /\ ValidStrList(Get(score_data, "strengths", JList(<<>>)))
    /\ ValidStrList(Get(score_data, "coaching_items", JList(<<>>)))
    /\ ValidStr(Get(score_data, "detailed_feedback",
                    JStr("No detailed feedback available")))

\* the str values of a list of str
Strs(x) == [i \in 1..Len(x.v) |-> x.v[i].v]

\* lines 298-312: the response model built from score_data, its fields
\* holding the converted values
BuildReport(score_data) ==
    [raw_scores |-> [c \in Categories |-> Number(score_data.v["raw_scores"].v[c])],
     weighted_points |->
         [c \in Categories |-> Number(score_data.v["weighted_points"].v[c])],
     pre_deduction_total |-> Number(Get(score_data, "pre_deduction_total", JInt(0))),
     deductions |->
         LET items == DeductionItems(Get(score_data, "deductions", JList(<<>>)))
         IN  [i \in 1..Len(items) |->
                [reason |-> items[i].v["reason"].v,
                 points |-> Number(items[i].v["points"])]],
     final_score |-> Number(Get(score_data, "final_score", JInt(0))),
     tier |-> Get(score_data, "tier", JStr("Developing")).v,
     strengths |-> Strs(Get(score_data, "strengths", JList(<<>>))),
     coaching_items |-> Strs(Get(score_data, "coaching_items", JList(<<>>))),
     detailed_feedback |-> Get(score_data, "detailed_feedback",
                               JStr("No detailed feedback available")).v]

\* the detail of a 500 ends with the text of the exception, which is left out
HTTPException(status, detail) == [status |-> status, detail |-> detail]

\* ScoreCheckKey without the check of line 77
ScoreCheckKey_NoCheck ==
    /\ sc_pc = "idle"
    /\ sc_pc' = "prompt"
    /\ UNCHANGED <<sc_key, sc_requests, sc_content, sc_result, sc_messages, sc_transcript>>
    /\ UNCHANGED streamVars
    /\ UNCHANGED invocations

\* line 89
speaker(msg) == IF msg.sender = "user" THEN "S" ELSE "P"

\* line 90: f"{speaker}: {msg.text}"
conversation_line(msg) == <<speaker(msg), ":", " ">> \o msg.text

\* line 92: "\n".join(lines)
RECURSIVE Join(_)
Join(lines) ==
    IF lines = <<>> THEN <<>>
    ELSE IF Len(lines) = 1 THEN lines[1]
    ELSE lines[1] \o <<"\n">> \o Join(Tail(lines))

\* lines 87-92: the transcript of request.messages
conversation_text(messages) ==
    Join([k \in 1..Len(messages) |-> conversation_line(messages[k])])

\* lines 77-81
ScoreCheckKey ==
    /\ sc_pc = "idle"
    /\ IF sc_key
       THEN sc_pc' = "prompt" /\ sc_result' = sc_result
       ELSE /\ sc_pc' = "raised"
            /\ sc_result' = HTTPException(503, "OpenAI API key not configured")
    /\ UNCHANGED <<sc_key, sc_requests, sc_content, sc_messages, sc_transcript>>
    /\ UNCHANGED streamVars
    /\ UNCHANGED invocations

\* lines 84-292.  The constructor of line 84 may raise, which the handler
\* of lines 320-325 answers before the transcript is built or any request
\* issued.  Otherwise the transcript and the prompt are built and the
\* completion request is issued, which returns some content or raises
\* (caught at 320-325 too).
ScoreRequest(contents) ==
    /\ sc_pc = "prompt"
    /\ \/ /\ sc_pc' = "raised"
          /\ sc_result' = HTTPException(500, "Failed to score interview")
          /\ UNCHANGED <<sc_requests, sc_content, sc_transcript>>
       \/ /\ sc_transcript' = conversation_text(sc_messages)
          /\ sc_requests' = sc_requests + 1
          /\ \/ \E content \in contents :
                  /\ sc_content' = content
                  /\ sc_pc' = "responded"
                  /\ sc_result' = sc_result
             \/ /\ sc_pc' = "raised"
                /\ sc_result' = HTTPException(500, "Failed to score interview")
                /\ sc_content' = sc_content
    /\ UNCHANGED <<sc_key, sc_messages>>
    /\ UNCHANGED streamVars
    /\ UNCHANGED invocations

\* ScoreBuild with score_data.get("raw_scores", zeros) in place of the
\* subscript of line 298
ScoreBuild_DefaultRaw ==
    /\ sc_pc = "responded"
    /\ IF sc_content.kind = "invalid"
       THEN /\ sc_pc' = "raised"
            /\ sc_result' = HTTPException(500, "Invalid response format from scoring service")
       ELSE LET given == sc_content.data
                score_data ==
                    IF given.json = "dict"
                    THEN JDict([k \in DOMAIN given.v \cup {"raw_scores"} |->
                                  IF k \in DOMAIN given.v THEN given.v[k]
                                  ELSE JDict([c \in Categories |-> JInt(0)])])
                    ELSE given
            IN  IF sc_content.kind = "json" /\ Builds(score_data)
                THEN /\ sc_pc' = "returned"
                     /\ sc_result' = BuildReport(score_data)
                ELSE /\ sc_pc' = "raised"
                     /\ sc_result' = HTTPException(500, "Failed to score interview")
    /\ UNCHANGED <<sc_key, sc_requests, sc_content, sc_messages, sc_transcript>>
    /\ UNCHANGED streamVars
    /\ UNCHANGED invocations

\* ScoreBuild asking the collaborator once more after content that is no JSON
ScoreBuild_Retry ==
    /\ sc_pc = "responded"
    /\ IF sc_content.kind = "invalid"
       THEN IF sc_requests < 2
            THEN sc_pc' = "prompt" /\ sc_result' = sc_result
            ELSE /\ sc_pc' = "raised"
                 /\ sc_result' = HTTPException(500, "Invalid response format from scoring service")
       ELSE IF sc_content.kind = "json" /\ Builds(sc_content.data)
            THEN /\ sc_pc' = "returned"
                 /\ sc_result' = BuildReport(sc_content.data)
            ELSE /\ sc_pc' = "raised"
                 /\ sc_result' = HTTPException(500, "Failed to score interview")
    /\ UNCHANGED <<sc_key, sc_requests, sc_content, sc_messages, sc_transcript>>
    /\ UNCHANGED streamVars
    /\ UNCHANGED invocations

\* lines 294-325: parse the content and build the response.  Content that
\* is no JSON raises JSONDecodeError (314-319); content that is None makes
\* json.loads raise TypeError, and so does anything that lines 298-312
\* cannot take (320-325).
ScoreBuild ==
    /\ sc_pc = "responded"
    /\ IF sc_content.kind = "invalid"
       THEN /\ sc_pc' = "raised"
            /\ sc_result' = HTTPException(500, "Invalid response format from scoring service")
       ELSE IF sc_content.kind = "json" /\ Builds(sc_content.data)
            THEN /\ sc_pc' = "returned"
                 /\ sc_result' = BuildReport(sc_content.data)
            ELSE /\ sc_pc' = "raised"
                 /\ sc_result' = HTTPException(500, "Failed to score interview")
    /\ UNCHANGED <<sc_key, sc_requests, sc_content, sc_messages, sc_transcript>>
    /\ UNCHANGED streamVars
    /\ UNCHANGED invocations

(***************************************************************************)
(* The scoring engine under every response of the completion collaborator  *)
(***************************************************************************)
Uniform(v) == JDict([c \in Categories |-> JInt(v)])

Deductions(points) ==
    JList([i \in 1..Len(points) |->
             JDict([reason |-> JStr("catalog"), points |-> JInt(points[i])])])

RawSamples == {Uniform(4), JDict([Uniform(3).v EXCEPT !["professionalism"] = JInt(6)])}
WeightedSamples == {Uniform(5), JDict([Uniform(4).v EXCEPT !["professionalism"] = JInt(9)])}
DeductionSamples == {JList(<<>>), Deductions(<<-5, -8>>), Deductions(<<-10, -10, -10, -10>>)}

ResponseKeys == {"raw_scores", "weighted_points", "pre_deduction_total", "deductions",
                 "final_score", "tier", "strengths", "coaching_items", "detailed_feedback"}

\* the well-formed responses: every key present, every value of the type
\* the prompt asks for
FullResponses ==
    {[raw_scores |-> raw, weighted_points |-> weighted,
      pre_deduction_total |-> JInt(pre), deductions |-> ded,
      final_score |-> JInt(final), tier |-> JStr(tier),
      strengths |-> JList(<<JStr("s1"), JStr("s2")>>),
      coaching_items |-> JList(<<JStr("c1"), JStr("c2")>>),
      detailed_feedback |-> JStr("feedback")] :
        raw \in RawSamples, weighted \in WeightedSamples, pre \in {20, 82},
        ded \in DeductionSamples, final \in {0, 69, 90, 150},
        tier \in {"Excellent", "Strong", "Developing", "NotReady"}}

Restrict(f, keys) == [k \in keys |-> f[k]]

\* one well-formed response
PlainResponse ==
    [raw_scores |-> Uniform(4), weighted_points |-> Uniform(5),
     pre_deduction_total |-> JInt(82), deductions |-> Deductions(<<-5, -8>>),
     final_score |-> JInt(69), tier |-> JStr("Developing"),
     strengths |-> JList(<<JStr("s1"), JStr("s2")>>),
     coaching_items |-> JList(<<JStr("c1"), JStr("c2")>>),
     detailed_feedback |-> JStr("feedback")]

\* values of another type than the prompt asks for, by the key they are
\* given to
OtherTyped(k) ==
    CASE k \in {"raw_scores", "weighted_points"} ->
            {JNone, JList(<<>>), JDict([Uniform(4).v EXCEPT !["professionalism"] = JStr("4")]),
             JDict([Uniform(4).v EXCEPT !["professionalism"] = JStr("abc")])}
      [] k \in {"pre_deduction_total", "final_score"} ->
            {JStr("82"), JStr("abc"), JNone, JList(<<>>)}
      [] k = "deductions" ->
            {JNone, JStr(""), JStr("abc"), JDict(<<>>),
             JList(<<JStr("catalog")>>),
             JList(<<JDict([reason |-> JInt(7), points |-> JInt(-5)])>>),
             JList(<<JDict([reason |-> JStr("catalog"), points |-> JStr("abc")])>>),
             JList(<<JDict([reason |-> JStr("catalog")])>>)}
      [] k \in {"tier", "detailed_feedback"} -> {JInt(5), JNone}
      [] k \in {"strengths", "coaching_items"} ->
            {JStr("s1"), JList(<<JInt(1), JInt(2)>>), JNone}

\* the well-formed response with one value of another type
OtherTypedResponses ==
    {[PlainResponse EXCEPT ![k] = x] : <<k, x>> \in
        UNION {{<<key, value>> : value \in OtherTyped(key)} : key \in ResponseKeys}}

JsonContent(data) == [kind |-> "json", data |-> data]

\* what the collaborator may answer: text that is no JSON, no content, JSON
\* that is no object, a well-formed response, a response lacking one key,
\* or a response with one value of another type
ScoreContents ==
    {[kind |-> "invalid", data |-> JNone], [kind |-> "none", data |-> JNone],
     JsonContent(JList(<<>>)), JsonContent(JNone)}
    \cup {JsonContent(JDict(full)) : full \in FullResponses}
    \cup {JsonContent(JDict(Restrict(full, ResponseKeys \ {k}))) :
            full \in FullResponses, k \in ResponseKeys}
    \cup {JsonContent(JDict(other)) : other \in OtherTypedResponses}

\* Message(text, sender)
Message(sender, text) == [sender |-> sender, text |-> text]

\* a conversation of a salesperson and a prospect
SampleConversation ==
    <<Message("user", <<"h", "i">>), Message("agent", <<"n", "o">>)>>

ScoreInit ==
    /\ StreamInit
    /\ agent = "ok"
    /\ by_sentence = TRUE
    /\ thread_id = None
    /\ sc_pc = "idle"
    /\ sc_key \in BOOLEAN
    /\ sc_requests = 0
    /\ sc_content = NoContent
    /\ sc_result = None
    /\ sc_messages = SampleConversation
    /\ sc_transcript = <<>>

ScoreNext ==
    \/ ScoreCheckKey
    \/ ScoreRequest(ScoreContents)
    \/ ScoreBuild

ScoreSpec == ScoreInit /\ [][ScoreNext]_vars

(***************************************************************************)
(* The transcript of every short conversation                              *)
(***************************************************************************)
MaxMessages == 2

\* message texts: plain, empty, and one that holds a line break
TranscriptTexts == {<<"h", "i">>, <<>>, <<"a", "\n", "b">>}

TranscriptMessages ==
    {Message(sender, text) : sender \in {"user", "agent"}, text \in TranscriptTexts}

Conversations == UNION {[1..n -> TranscriptMessages] : n \in 0..MaxMessages}

TranscriptContents ==
    {[kind |-> "invalid", data |-> JNone], JsonContent(JDict(PlainResponse))}

TranscriptInit ==
    /\ StreamInit
    /\ agent = "ok"
    /\ by_sentence = TRUE
    /\ thread_id = None
    /\ sc_pc = "idle"
    /\ sc_key = TRUE
    /\ sc_requests = 0
    /\ sc_content = NoContent
    /\ sc_result = None
    /\ sc_messages \in Conversations
    /\ sc_transcript = <<>>

TranscriptNext ==
    \/ ScoreCheckKey
    \/ ScoreRequest(TranscriptContents)
    \/ ScoreBuild

TranscriptSpec == TranscriptInit /\ [][TranscriptNext]_vars

(***************************************************************************)
(* One delta drawn from every short text, then completion                  *)
(***************************************************************************)
SegAlphabet == {"a", ".", " ", "\n"}

SegTexts == UNION {[1..n -> SegAlphabet] : n \in 0..MaxTextLen}

SegDeltas == {ContentDelta(<<TextItem(text)>>) : text \in SegTexts \cup {Hello, Price}}

SegInit ==
    /\ StreamInit
    /\ agent = "ok"
    /\ by_sentence = TRUE
    /\ thread_id = "thread_old"
    /\ ScoreIdle

SegNext ==
    \/ Validate
    \/ StartThread
    \/ AddMessage
    \/ RunInExecutor
    \/ MessageAdded
    \/ StartWorker
    \/ WorkerOpenRun
    \/ WorkerPut(IF produced = <<>> THEN SegDeltas ELSE {RunCompleted}, 2)
    \/ WorkerDone
    \/ Resume
    \/ ConsumeDelta
    \/ ConsumeRunCompleted
    \/ ConsumeDone
    \/ WaitTimeout
    \/ AfterTimeout

SegSpec == SegInit /\ [][SegNext]_vars

(***************************************************************************)
(* A text delivered in two deltas, broken at any point, then completion    *)
(***************************************************************************)
\* length of each of the two delta texts (SplitSpec)
MaxSplitLen == 2

SplitAlphabet == {"3", ".", " "}

SplitTexts == UNION {[1..n -> SplitAlphabet] : n \in 0..MaxSplitLen}

SplitDeltas == {ContentDelta(<<TextItem(text)>>) : text \in SplitTexts}

SplitNext ==
    \/ Validate
    \/ StartThread
    \/ AddMessage
    \/ RunInExecutor
    \/ MessageAdded
    \/ StartWorker
    \/ WorkerOpenRun
    \/ WorkerPut(IF Len(produced) < 2 THEN SplitDeltas ELSE {RunCompleted}, 3)
    \/ WorkerDone
    \/ Resume
    \/ ConsumeDelta
    \/ ConsumeRunCompleted
    \/ ConsumeDone
    \/ WaitTimeout
    \/ AfterTimeout

SplitSpec == SegInit /\ [][SplitNext]_vars

(***************************************************************************)
(* The generator is resumed whenever it can run; the stream source and the *)
(* worker blocked on it are under no obligation to deliver anything.       *)
(***************************************************************************)
FairSpec ==
    Spec /\ WF_vars(Generator) /\ WF_vars(RunInExecutor) /\ WF_vars(WorkerOpenRun)

(***************************************************************************)
(* Two invocations of chat_with_agent_stream served by one event loop      *)
(***************************************************************************)
\* Each invocation has its own locals (lines 343-371): event_queue,
\* stream_error, stream_thread, buffer.  The generators run on the single
\* thread of the event loop: one runs from the point where it is resumed to
\* its next yield, and event_queue.get(timeout=30) at line 378 is a plain
\* blocking call, so a generator that waits there keeps the thread.
\*   pc = "suspended"  at a yield, the thread is free
\*   pc = "adding"     at the await of line 329, the thread is free
\*   pc = "raised"     an exception has left the generator
\*   pc = "waiting"    inside event_queue.get, holding the thread
\*   pc = "timedout"   queue.Empty was raised (line 489), holding the thread
\*   pc = "ended"      the generator has returned
MaxPairEvents == 2

\* what the run stream of an invocation may deliver
PairEvents ==
    {ContentDelta(<<TextItem(<<"a", ".", " ">>)>>), ContentDelta(<<TextItem(<<"b">>)>>),
     RunCompleted}

LoopThreadFree == \A j \in PairIds : invocations[j].pc \notin {"waiting", "timedout"}

\* lines 380-487: what the loop body has to run for one item taken from the
\* queue
Handle(item, buf, tid) ==
    IF item[1] = "done"
    THEN Completion(buf, tid)
    ELSE IF item[1] = "error"
    THEN <<Yield(Error(<<item[2]>>, tid)), Leave>>
    ELSE IF item[2].type = "thread.message.delta"
    THEN ProcessContent(item[2].content, 1, buf, tid)
    ELSE IF item[2].type = "thread.run.failed"
    THEN <<Yield(Error(ErrorMsg(item[2].last_error), tid)), Leave>>
    ELSE IF item[2].type = "thread.run.completed"
    THEN Completion(buf, tid)
    ELSE <<>>

\* invocation me after its generator has run the steps up to the first
\* yield: suspended there, or back in event_queue.get, or ended
PairRun(me, steps) ==
    LET r == RunToYield(steps, me.buffer, me.frames)
    IN  [me EXCEPT
           !.pc = IF r.pc = "loop" THEN "waiting"
                  ELSE IF r.pc = "yielded" THEN "suspended" ELSE "ended",
           !.buffer = r.buffer,
           !.frames = r.frames,
           !.pending = r.pending]

\* The event loop resumes the generator of invocation i at the yield it is
\* suspended at.  The first time that is the yield of line 326: the
\* generator hands messages.create to the executor and waits for it at line
\* 329, which leaves the thread to the loop.  Later it runs on to its next
\* yield.
PairResume(i) ==
    /\ invocations[i].pc = "suspended"
    /\ LoopThreadFree
    /\ invocations' = [invocations EXCEPT ![i] =
         IF @.worker = "none"
         THEN [@ EXCEPT !.pc = "adding"]
         ELSE PairRun(@, @.pending)]
    /\ UNCHANGED <<streamVars, scoreVars>>

\* lines 329-378 in invocation i: messages.create has run in the executor
\* and the loop resumes the generator at the await.  The call raised, which
\* leaves the generator (the await is outside the try of line 373); or it
\* returned, and the generator makes its queue, starts process_stream and
\* enters event_queue.get.  The run is opened later, by process_stream.
PairMessageAdded(i) ==
    /\ invocations[i].pc = "adding"
    /\ LoopThreadFree
    /\ \/ invocations' = [invocations EXCEPT
             ![i].pc = "raised",
             ![i].raised = "APIError"]
       \/ invocations' = [invocations EXCEPT
             ![i].pc = "waiting",
             ![i].worker = "started",
             ![i].event_queue = <<>>,
             ![i].stream_error = None,
             ![i].buffer = <<>>]
    /\ UNCHANGED <<streamVars, scoreVars>>

\* lines 349-353 in the worker of invocation i: the streaming run is opened
PairWorkerOpenRun(i) ==
    /\ invocations[i].worker = "started"
    /\ invocations' = [invocations EXCEPT ![i].worker = "streaming"]
    /\ UNCHANGED <<streamVars, scoreVars>>

\* line 378 returns an item to invocation i, and lines 380-487 handle it up
\* to the first yield: the generator is suspended there, or goes straight
\* back to event_queue.get when the item yields nothing
PairGet(i) ==
    /\ invocations[i].pc = "waiting"
    /\ invocations[i].event_queue # <<>>
    /\ LET me == invocations[i]
           item == Head(me.event_queue)
       IN  invocations' = [invocations EXCEPT ![i] =
             PairRun([me EXCEPT
                        !.event_queue = Tail(@),
                        !.consumed = IF item[1] = "event"
                                     THEN Append(@, item[2]) ELSE @],
                     Handle(item, me.buffer, PairThread(i)))]
    /\ UNCHANGED <<streamVars, scoreVars>>

\* line 378 and 489 in invocation i: the wait ends with its queue still empty
PairWaitTimeout(i) ==
    /\ invocations[i].pc = "waiting"
    /\ invocations[i].event_queue = <<>>
    /\ invocations' = [invocations EXCEPT ![i].pc = "timedout"]
    /\ UNCHANGED <<streamVars, scoreVars>>

\* lines 490-498 in invocation i
PairAfterTimeout(i) ==
    /\ invocations[i].pc = "timedout"
    /\ LET me == invocations[i]
       IN  IF me.worker \notin {"started", "streaming"} /\ me.stream_error # None
           THEN invocations' = [invocations EXCEPT ![i] =
                  PairRun(me, <<Yield(Error(<<me.stream_error>>, PairThread(i))), Leave>>)]
           ELSE invocations' = [invocations EXCEPT ![i].pc = "waiting"]
    /\ UNCHANGED <<streamVars, scoreVars>>

\* PairWorkerPut with one event_queue for all invocations
PairWorkerPut_SharedQueue(i) ==
    /\ invocations[i].worker = "streaming"
    /\ Len(invocations[i].produced) < MaxPairEvents
    /\ \E ev \in PairEvents :
         invocations' = [j \in PairIds |->
            [invocations[j] EXCEPT
               !.produced = IF j = i THEN Append(@, ev) ELSE @,
               !.event_queue = Append(@, <<"event", ev>>)]]
    /\ UNCHANGED <<streamVars, scoreVars>>

\* lines 355-359 in the worker of invocation i
PairWorkerPut(i) ==
    /\ invocations[i].worker = "streaming"
    /\ Len(invocations[i].produced) < MaxPairEvents
    /\ \E ev \in PairEvents :
         invocations' = [invocations EXCEPT
            ![i].produced = Append(@, ev),
            ![i].event_queue = Append(@, <<"event", ev>>)]
    /\ UNCHANGED <<streamVars, scoreVars>>

\* line 360 in the worker of invocation i
PairWorkerDone(i) ==
    /\ invocations[i].worker = "streaming"
    /\ invocations' = [invocations EXCEPT
         ![i].event_queue = Append(@, <<"done", None>>),
         ![i].worker = "finished"]
    /\ UNCHANGED <<streamVars, scoreVars>>

\* lines 361-364 in the worker of invocation i: runs.create or the stream
\* iterator raises
PairWorkerRaise(i) ==
    /\ invocations[i].worker \in {"started", "streaming"}
    /\ \E msg \in StreamErrors :
         invocations' = [invocations EXCEPT
            ![i].stream_error = msg,
            ![i].event_queue = Append(@, <<"error", msg>>),
            ![i].worker = "failed"]
    /\ UNCHANGED <<streamVars, scoreVars>>

PairInit ==
    /\ StreamInit
    /\ agent = "ok"
    /\ by_sentence = TRUE
    /\ thread_id = None
    /\ ScoreIdle

PairNext ==
    \E i \in PairIds :
        \/ PairResume(i)
        \/ PairMessageAdded(i)
        \/ PairWorkerOpenRun(i)
        \/ PairGet(i)
        \/ PairWaitTimeout(i)
        \/ PairAfterTimeout(i)
        \/ PairWorkerPut(i)
        \/ PairWorkerDone(i)
        \/ PairWorkerRaise(i)

PairSpec == PairInit /\ [][PairNext]_vars

(***************************************************************************)
(* Vocabulary of the properties                                            *)
(***************************************************************************)
IsTerminal(f) == f.t \in {"d", "e"}

RECURSIVE Flatten(_)
Flatten(texts) == IF texts = <<>> THEN <<>> ELSE Head(texts) \o Flatten(Tail(texts))

IsChunk(f) == f.t = "c"
ChunkFrames == SelectSeq(frames, IsChunk)
ChunkTexts == [i \in 1..Len(ChunkFrames) |-> ChunkFrames[i].d]

\* the text values of the text items of a content list, in order
RECURSIVE ContentTexts(_)
ContentTexts(content) ==
    IF content = <<>> THEN <<>>
    ELSE (IF Head(content).type = "text" /\ ~RaisesOnText(Head(content).value)
          THEN <<Head(content).value>> ELSE <<>>)
         \o ContentTexts(Tail(content))

\* the text values carried by the delta events of a sequence, in order
RECURSIVE DeltaTexts(_)
DeltaTexts(events) ==
    IF events = <<>> THEN <<>>
    ELSE (IF Head(events).type = "thread.message.delta"
          THEN ContentTexts(Head(events).content) ELSE <<>>)
         \o DeltaTexts(Tail(events))

IsTerminalEvent(ev) == ev.type \in {"thread.run.completed", "thread.run.failed"}

\* type of the first terminal event of a sequence, None when it has none
FirstTerminal(events) ==
    IF \E i \in 1..Len(events) : IsTerminalEvent(events[i])
    THEN events[CHOOSE i \in 1..Len(events) :
                  /\ IsTerminalEvent(events[i])
                  /\ \A j \in 1..(i - 1) : ~IsTerminalEvent(events[j])].type
    ELSE None

LastFrame == frames[Len(frames)]
Count(t) == Cardinality({i \in 1..Len(frames) : frames[i].t = t})

(***************************************************************************)
(* C1.  No frame follows a Done or Error frame: an invocation emits at     *)
(* most one terminal frame, never both a Done and an Error, whatever the   *)
(* order of events, worker errors and wait timeouts.                       *)
(***************************************************************************)
C1_TerminalIsLast ==
    \A i \in 1..Len(frames) : IsTerminal(frames[i]) => i = Len(frames)

\* the invocation ended on an Error while a RunCompleted event was still queued
C1_Witness ==
    /\ pc = "ended"
    /\ LastFrame.t = "e"
    /\ \E i \in 1..Len(event_queue) :
         event_queue[i][1] = "event" /\ event_queue[i][2] = RunCompleted

(***************************************************************************)
(* C2.  When the first terminal event of the run is RunCompleted the frame *)
(* sequence ends with exactly one Done and holds no Error; when it is      *)
(* RunFailed it ends with exactly one Error and holds no Done.             *)
(***************************************************************************)
C2_AlwaysTerminal ==
    pc = "ended" =>
        /\ FirstTerminal(produced) = "thread.run.completed" =>
               LastFrame.t = "d" /\ Count("d") = 1 /\ Count("e") = 0
        /\ FirstTerminal(produced) = "thread.run.failed" =>
               LastFrame.t = "e" /\ Count("e") = 1 /\ Count("d") = 0

(***************************************************************************)
(* C3.  Every returned report has final_score equal to                     *)
(* pre_deduction_total plus the deduction points, clamped to 0..100,       *)
(* whatever final_score the response carried; 82 with deductions -5 and -8 *)
(* gives 69.                                                               *)
(***************************************************************************)
RECURSIVE SumPoints(_)
SumPoints(deductions) ==
    IF deductions = <<>> THEN 0
    ELSE Head(deductions).points + SumPoints(Tail(deductions))

Clamp(x, lo, hi) == IF x < lo THEN lo ELSE IF x > hi THEN hi ELSE x

C3_FinalScoreRecomputed ==
    (sc_pc = "returned" /\ DOMAIN sc_content.data.v = ResponseKeys) =>
        sc_result.final_score =
            Clamp(sc_result.pre_deduction_total + SumPoints(sc_result.deductions), 0, 100)

(***************************************************************************)
(* C4.  In sentence mode, when the run ends in RunCompleted, the texts of  *)
(* the Chunk frames concatenated in order equal the delta texts            *)
(* concatenated in order.                                                  *)
(***************************************************************************)
C4_ConcatenationPreserved ==
    (/\ by_sentence
     /\ pc = "ended"
     /\ consumed # <<>>
     /\ consumed[Len(consumed)] = RunCompleted)
    => Flatten(ChunkTexts) = Flatten(DeltaTexts(consumed))

(***************************************************************************)
(* C5.  An invocation that has reached its consuming loop eventually emits *)
(* a terminal frame and ends.                                              *)
(***************************************************************************)
C5_EventuallyTerminal == (pc = "loop") ~> (pc = "ended")

(***************************************************************************)
(* Positions in the text of a single delta (SegSpec)                       *)
(***************************************************************************)
\* the text of the first event consumed, a delta with one text item
FirstText == consumed[1].content[1].value

\* 1-based position of the last character of the k-th Chunk, counting from
\* the first character emitted
ChunkEnd(k) == Len(Flatten(SubSeq(ChunkTexts, 1, k)))

\* the character at 1-based position i is a boundary character followed by
\* whitespace, or a boundary character ending the text
IsBoundaryAt(text, i) ==
    /\ text[i] \in BoundaryChars
    /\ i = Len(text) \/ text[i + 1] \in SpaceChars

\* where the Chunk closed by the boundary at position i has to end
BoundaryEnd(text, i) == IF i = Len(text) THEN i ELSE i + 1

(***************************************************************************)
(* C6.  After a delta is appended to the (empty) buffer, every boundary    *)
(* character followed by whitespace, or ending the buffer, ends one Chunk  *)
(* that holds the boundary and the whitespace character after it; the      *)
(* Chunks of the delta followed by the new buffer are the old buffer plus  *)
(* the delta; "Hello, world. How are you?" gives "Hello, ", "world. ",     *)
(* "How are you?".                                                         *)
(***************************************************************************)
\* the first delta has been processed to its end, the generator is back at
\* line 378, and nothing has been taken after it
AfterFirstDelta == Len(consumed) = 1 /\ pc \in {"loop", "timedout"}

C6_Remainder ==
    AfterFirstDelta => Flatten(ChunkTexts) \o buffer = FirstText

C6_Example ==
    (AfterFirstDelta /\ FirstText = Hello) =>
        ChunkTexts = <<SubSeq(Hello, 1, 7), SubSeq(Hello, 8, 14), SubSeq(Hello, 15, 26)>>

C6_BoundaryEndsChunk ==
    AfterFirstDelta =>
        /\ \A i \in 1..Len(FirstText) :
             IsBoundaryAt(FirstText, i) =>
                 \E k \in 1..Len(ChunkTexts) :
                     /\ ChunkEnd(k) = BoundaryEnd(FirstText, i)
                     /\ ChunkEnd(k) - Len(ChunkTexts[k]) < i
        /\ C6_Remainder
        /\ C6_Example

(***************************************************************************)
(* C7.  In sentence mode the buffer never holds more than 30 characters    *)
(* once a delta has been processed, and a stream of more than 30           *)
(* characters without any boundary character has produced a Chunk before   *)
(* completion.                                                             *)
(***************************************************************************)
NoBoundaryChar(text) == \A i \in 1..Len(text) : text[i] \notin BoundaryChars

C7_BufferBounded ==
    by_sentence =>
        /\ pc \in {"loop", "timedout"} => Len(buffer) <= MAX_BUFFER_SIZE
        /\ LET text == Flatten(DeltaTexts(consumed))
           IN  (NoBoundaryChar(text) /\ Len(text) > MAX_BUFFER_SIZE) =>
                   ChunkFrames # <<>>

\* 31 characters without a boundary were flushed as one Chunk, the run not
\* yet completed
C7_Witness ==
    /\ by_sentence
    /\ pc = "loop"
    /\ buffer = <<>>
    /\ ChunkTexts = <<Letters(15) \o Letters(16)>>
    /\ \A i \in 1..Len(consumed) : ~IsTerminalEvent(consumed[i])

(***************************************************************************)
(* C8 as stated.  With the text delivered as a single delta, no Chunk ends *)
(* at a boundary character that is directly followed by a non-whitespace   *)
(* character, and "Price is 3.14 dollars" arrives as one Chunk.            *)
(***************************************************************************)
PriceInOneChunk ==
    (/\ pc = "ended"
     /\ Len(consumed) = 2
     /\ FirstText = Price
     /\ consumed[2] = RunCompleted) => ChunkTexts = <<Price>>

C8_NoSplitBeforeNonSpace ==
    Len(consumed) >= 1 =>
        /\ \A k \in 1..Len(ChunkTexts) :
             LET p == ChunkEnd(k)
             IN  (p >= 1 /\ p < Len(FirstText)) =>
                     ~(FirstText[p] \in BoundaryChars /\ FirstText[p + 1] \notin SpaceChars)
        /\ PriceInOneChunk

(***************************************************************************)
(* C8 amended.  With the text delivered as a single delta, a Chunk ends    *)
(* inside the text only right after a whitespace character that directly   *)
(* follows a boundary character: no boundary character other than a        *)
(* newline following another boundary character ends a Chunk while a       *)
(* non-whitespace character follows it.  "Price is 3.14 dollars" arrives   *)
(* as one Chunk.                                                           *)
(***************************************************************************)
C8_SplitOnlyAfterBoundarySpace ==
    Len(consumed) >= 1 =>
        /\ \A k \in 1..Len(ChunkTexts) :
             LET p == ChunkEnd(k)
             IN  p < Len(FirstText) =>
                     /\ p >= 2
                     /\ FirstText[p - 1] \in BoundaryChars
                     /\ FirstText[p] \in SpaceChars
        /\ PriceInOneChunk

\* "Price is 3.14 dollars" went through as a single Chunk followed by Done
C8_Witness ==
    /\ pc = "ended"
    /\ Len(consumed) = 2
    /\ FirstText = Price
    /\ frames = <<ThreadStarted(thread_id), Chunk(Price, thread_id), Done(thread_id)>>

(***************************************************************************)
(* C9.  With buffer_by_sentence false every delta text is one Chunk with   *)
(* the same text, in arrival order; nothing is buffered and completion     *)
(* adds no Chunk.                                                          *)
(***************************************************************************)
C9_ChunkPerDelta ==
    ~by_sentence =>
        /\ ChunkTexts = DeltaTexts(consumed)
        /\ buffer = <<>>

\* two deltas, the second being whitespace only, then completion
C9_Witness ==
    /\ ~by_sentence
    /\ pc = "ended"
    /\ ChunkTexts = <<Hello, <<" ">> >>
    /\ LastFrame.t = "d"

(***************************************************************************)
(* C10.  Without a thread id in the request, the id returned by the        *)
(* collaborator is emitted as ThreadStarted, the first frame; no message   *)
(* is appended and no run opened before that frame.                        *)
(***************************************************************************)
C10_ThreadStartedFirst ==
    /\ thread_id = None => frames = <<>> /\ Len(calls) <= 1
    /\ \A i \in 1..Len(calls) :
         calls[i].op \in {"messages.create", "runs.create"} =>
             /\ frames # <<>>
             /\ frames[1] = ThreadStarted(calls[i].tid)
    /\ (calls # <<>> /\ calls[1].op = "threads.create" /\ frames # <<>>) =>
             /\ calls[1].tid \in NewThreadIds
             /\ frames[1] = ThreadStarted(calls[1].tid)
    /\ \A i \in 2..Len(frames) : frames[i].t # "s"

\* the new thread's id was sent first and the run then failed
C10_Witness ==
    /\ calls # <<>>
    /\ calls[1].op = "threads.create"
    /\ Len(frames) = 2
    /\ frames[1] = ThreadStarted("thread_new")
    /\ frames[2].t = "e"
    /\ consumed # <<>>
    /\ consumed[Len(consumed)].type = "thread.run.failed"

(***************************************************************************)
(* C11.  When handling a delta event raises (its text value cannot be      *)
(* extracted), the invocation ends on exactly one Error frame: no Chunk    *)
(* and no Done follows.                                                    *)
(***************************************************************************)
\* handling this event raises inside the try of line 409
RaisesInDelta(ev) ==
    /\ ev.type = "thread.message.delta"
    /\ \E i \in 1..Len(ev.content) :
         ev.content[i].type = "text" /\ RaisesOnText(ev.content[i].value)

C11_ExceptionEndsWithError ==
    (\E i \in 1..Len(consumed) :
        /\ RaisesInDelta(consumed[i])
        /\ \A j \in 1..(i - 1) : ~IsTerminalEvent(consumed[j]))
    => /\ pc = "ended"
       /\ LastFrame.t = "e"
       /\ Count("e") = 1
       /\ Count("d") = 0

(***************************************************************************)
(* chat_with_agent_streaming: the route that sends the generator's output  *)
(***************************************************************************)
\* error_handlers.py 54-78, called at agent_router.py 126-127 with
\* require_initialized=True, on the registry as it is: the exception it
\* raises, if any (the agent id that the detail text quotes is left out)
validate_agent ==
    IF agent = "missing"
    THEN <<HTTPException(404, "Agent not found. Valid agent IDs are 1-10.")>>
    ELSE IF agent = "uninitialized"
         THEN <<HTTPException(400, "Agent is not properly initialized.")>>
         ELSE <<>>

\* agent_router.py 141-143: what generate() sends for an exception that left
\* the generator
ErrorPayload(e) == [error |-> e]

\* agent_router.py 129-143: the payloads of the SSE stream so far, one per
\* frame of the generator, then the error payload when the generator raised
generate ==
    frames \o (IF pc = "raised" THEN <<ErrorPayload(raised)>> ELSE <<>>)

\* one of the four shapes the generator yields: {"t": "s" | "c" | "d" | "e", ...}
IsOutputFrame(p) == "t" \in DOMAIN p /\ p.t \in {"s", "c", "d", "e"}

(***************************************************************************)
(* C12.  Once a frame has been yielded, no exception leaves the generator  *)
(* (a failure shows as a terminal Error frame), and every payload the      *)
(* route sends is one of the four frame shapes.                            *)
(***************************************************************************)
C12_FailuresBecomeErrorFrames ==
    frames # <<>> =>
        /\ raised = "none"
        /\ pc = "raised" => LastFrame.t = "e"
        /\ \A i \in 1..Len(generate) : IsOutputFrame(generate[i])

(***************************************************************************)
(* C13.  For an agent that is not registered, or that has no assistant id, *)
(* the invocation raises AgentNotFoundError / AgentNotInitializedError     *)
(* (404 / 400 when the route checks the same registry) as its first step,  *)
(* and leaves the registry as it was; an invocation that raised one of     *)
(* them has yielded no frame, created no thread, appended no message,      *)
(* opened no run and started no worker.                                    *)
(***************************************************************************)
C13_UnknownOrUnreadyAgentFailsFirst ==
    [][/\ (pc = "start" /\ agent \in {"missing", "uninitialized"} /\ pc' # pc) =>
            /\ pc' = "raised"
            /\ raised' = (IF agent = "missing" THEN "AgentNotFoundError"
                          ELSE "AgentNotInitializedError")
            /\ agent' = agent
            /\ validate_agent # <<>>
            /\ validate_agent[1].status = (IF agent = "missing" THEN 404 ELSE 400)
       /\ (pc' = "raised"
           /\ raised' \in {"AgentNotFoundError", "AgentNotInitializedError"}) =>
            /\ frames' = <<>>
            /\ generate' = <<ErrorPayload(raised')>>
            /\ calls' = <<>>
            /\ thread_id' \in GivenThreadIds
            /\ worker' = "none"
            /\ event_queue' = <<>>]_vars

\* the invocation met an entry without assistant id and raised
C13_Witness ==
    /\ pc = "raised"
    /\ raised = "AgentNotInitializedError"
    /\ frames = <<>>
    /\ calls = <<>>

(***************************************************************************)
(* C14.  When the 30 second wait has expired on an empty queue and the     *)
(* worker has terminated with an error, the next step of the invocation    *)
(* yields an Error frame carrying that error, with nothing left to run but *)
(* the end of the generator; it does not go back to waiting.               *)
(***************************************************************************)
C14_TimeoutAfterWorkerFailure ==
    [][(pc = "timedout" /\ worker = "failed" /\ pc' # pc)
         => /\ pc' = "yielded"
            /\ frames' = Append(frames, Error(<<stream_error>>, thread_id))
            /\ Len(pending') = 1
            /\ pending'[1].op = "leave"]_vars

\* the Error frame came from the timeout path: the worker's error item is
\* still unread in the queue and no terminal event was consumed
C14_Witness ==
    /\ pc = "ended"
    /\ worker = "failed"
    /\ event_queue # <<>>
    /\ event_queue[Len(event_queue)] = <<"error", stream_error>>
    /\ \A i \in 1..Len(consumed) : ~IsTerminalEvent(consumed[i])
    /\ LastFrame = Error(<<stream_error>>, thread_id)

(***************************************************************************)
(* The invocation when the caller may abandon it                           *)
(***************************************************************************)
\* The client disconnects and the caller closes or cancels the generator,
\* which takes effect only where the generator is suspended: at the await
\* of line 318, at the yield of line 326, at the await of line 329, or at a
\* yield inside the loop.  event_queue.get at line 378 is a blocking call,
\* not an await: a generator that waits there cannot be closed.  The
\* generator never resumes.  It has no finally clause and shares no flag
\* with process_stream, so nothing else changes.  Cancelled at an await, the
\* call handed to the executor is withdrawn when the executor has not taken
\* it up; one it has taken up is made all the same (RunInExecutor), and
\* returns or raises with nobody waiting for it.
Abandon ==
    /\ \/ pc = "validated" /\ thread_id = None
       \/ pc = "started"
       \/ pc = "adding"
       \/ pc = "yielded"
    /\ pc' = "closed"
    /\ pending' = <<>>
    /\ \/ future' = future
       \/ /\ Len(future) = 2
          /\ future[2] = "pending"
          /\ future' = <<>>
    /\ UNCHANGED <<agent, by_sentence, thread_id, calls, worker, stream_error,
                   event_queue, produced, consumed, buffer, frames, raised>>
    /\ UNCHANGED scoreVars
    /\ UNCHANGED invocations

\* one event of each kind that the loop tells apart
CloseEvents ==
    {MessageCreated, RunCreated, RunCompleted, RunFailed(<<>>),
     ContentDelta(<<TextItem(Hello)>>)}

CloseNext ==
    \/ Initialize
    \/ CreateAllAgents
    \/ Generator
    \/ Abandon
    \/ RunInExecutor
    \/ WorkerOpenRun
    \/ WorkerPut(CloseEvents, MaxEvents)
    \/ WorkerDone
    \/ WorkerRaise

CloseSpec == Init /\ [][CloseNext]_vars

(***************************************************************************)
(* C15.  Once the caller has abandoned the invocation before a terminal    *)
(* frame, the worker pulls no further event from the run and enqueues it   *)
(* for that invocation.                                                    *)
(***************************************************************************)
C15_NoEnqueueAfterAbandon ==
    [][(pc = "closed" /\ \A i \in 1..Len(frames) : ~IsTerminal(frames[i]))
         => produced' = produced]_vars

(***************************************************************************)
(* C16.  The tier of a returned report is the one its final_score maps to: *)
(* Excellent from 90, Strong from 75, Developing from 60, NotReady below.  *)
(***************************************************************************)
\* the tiers of the rubric, lines 210-220 of the prompt
TierOf(score) ==
    IF score >= 90 THEN "Excellent"
    ELSE IF score >= 75 THEN "Strong"
    ELSE IF score >= 60 THEN "Developing"
    ELSE "NotReady"

C16_TierFromFinalScore ==
    (sc_pc = "returned" /\ DOMAIN sc_content.data.v = ResponseKeys) =>
        sc_result.tier = TierOf(sc_result.final_score)

(***************************************************************************)
(* C17.  In a returned report every raw score is in 1..5 and every         *)
(* weighted-points value is between 0 and the maximum of its category.     *)
(***************************************************************************)
\* the ranges noted on the fields of WeightedPoints, lines 40-47
MaxPoints(c) ==
    CASE c = "opening_rapport" -> 10
      [] c = "discovery_qualification" -> 20
      [] c = "value_messaging" -> 20
      [] c = "objection_handling" -> 20
      [] c = "trial_advancement" -> 15
      [] c = "listening_adaptability" -> 10
      [] c = "professionalism" -> 5

C17_ScoresInRange ==
    sc_pc = "returned" =>
        \A c \in Categories :
            /\ sc_result.raw_scores[c] \in 1..5
            /\ sc_result.weighted_points[c] \in 0..MaxPoints(c)

(***************************************************************************)
(* C18.  A response that parses but has no raw_scores makes the request    *)
(* fail with HTTP 500; no report is returned for it.                       *)
(***************************************************************************)
LacksRawScores ==
    /\ sc_content # NoContent
    /\ sc_content.kind = "json"
    /\ sc_content.data.json = "dict"
    /\ "raw_scores" \notin DOMAIN sc_content.data.v

C18_MissingRawScoresFails ==
    LacksRawScores =>
        /\ sc_pc \in {"responded", "raised"}
        /\ sc_pc = "raised" => sc_result = HTTPException(500, "Failed to score interview")

C18_Witness == LacksRawScores /\ sc_pc = "raised" /\ sc_result.status = 500

(***************************************************************************)
(* C19.  A response that parses but lacks pre_deduction_total, final_score *)
(* or tier is rejected: no report is returned for it.                      *)
(***************************************************************************)
C19_IncompleteResponseRejected ==
    sc_pc = "returned" =>
        {"pre_deduction_total", "final_score", "tier"} \subseteq DOMAIN sc_content.data.v

(***************************************************************************)
(* C20.  Without an API key the request fails with HTTP 503 before the     *)
(* prompt is built, and no completion request is issued.                   *)
(***************************************************************************)
C20_NoKeyNoRequest ==
    ~sc_key =>
        /\ sc_requests = 0
        /\ sc_content = NoContent
        /\ sc_pc \in {"idle", "raised"}
        /\ sc_pc = "raised" =>
             sc_result = HTTPException(503, "OpenAI API key not configured")

C20_Witness == ~sc_key /\ sc_pc = "raised" /\ sc_result.status = 503

(***************************************************************************)
(* C21 as stated.  A call of score_interview issues at most one completion *)
(* request, and exactly one when an API key is configured.                 *)
(***************************************************************************)
C21_ExactlyOneWithKey ==
    /\ sc_requests \in {0, 1}
    /\ (sc_key /\ sc_pc \in {"responded", "returned", "raised"}) => sc_requests = 1

(***************************************************************************)
(* C21 amended.  A call of score_interview issues at most one completion   *)
(* request: none without an API key, exactly one once the transcript has   *)
(* been built and for every call that got content or returned a report,    *)
(* and no second one after a response that is malformed or a request that  *)
(* failed.                                                                 *)
(***************************************************************************)
C21_OneCompletionRequest ==
    /\ sc_requests \in {0, 1}
    /\ sc_requests = 1 => (sc_key /\ sc_pc \in {"responded", "returned", "raised"})
    /\ sc_pc \in {"responded", "returned"} => sc_requests = 1
    /\ sc_transcript # <<>> => sc_requests = 1

\* the response was no JSON, the failure was answered, one request was made
C21_Witness ==
    /\ sc_pc = "raised"
    /\ sc_content # NoContent
    /\ sc_content.kind = "invalid"
    /\ sc_result = HTTPException(500, "Invalid response format from scoring service")
    /\ sc_requests = 1

(***************************************************************************)
(* C22.  Two invocations in sentence mode whose run streams behaved the    *)
(* same (same events in the same order, same way of ending) have yielded   *)
(* the same sequence of Chunk texts once both have ended, whatever the     *)
(* timing of the workers and of the other invocation.                      *)
(***************************************************************************)
PairChunkTexts(i) ==
    LET cf == SelectSeq(invocations[i].frames, IsChunk)
    IN  [k \in 1..Len(cf) |-> cf[k].d]

C22_SameDeltasSameChunks ==
    (/\ \A i \in PairIds : invocations[i].pc = "ended"
     /\ \A i \in PairIds : invocations[i].worker \in {"finished", "failed"}
     /\ invocations[1].worker = invocations[2].worker
     /\ invocations[1].produced = invocations[2].produced)
    => PairChunkTexts(1) = PairChunkTexts(2)

(***************************************************************************)
(* C23.  Under every interleaving of two invocations, each invocation's    *)
(* frames carry its own thread id, it consumes the events its own worker   *)
(* enqueued, the text of its Chunk frames is made of the text of its own   *)
(* deltas only, and between two items that text followed by its buffer is  *)
(* the text of its own deltas.                                             *)
(***************************************************************************)
IsPrefix(a, b) == Len(a) <= Len(b) /\ SubSeq(b, 1, Len(a)) = a

PairOwnText(i) == Flatten(DeltaTexts(invocations[i].consumed))

C23_NoSharedSegmentationState ==
    \A i \in PairIds :
        LET me == invocations[i]
        IN  /\ \A k \in 1..Len(me.frames) : me.frames[k].tid = PairThread(i)
            /\ IsPrefix(me.consumed, me.produced)
            /\ IsPrefix(Flatten(PairChunkTexts(i)), PairOwnText(i))
            /\ me.pc \in {"waiting", "timedout"} =>
                 Flatten(PairChunkTexts(i)) \o me.buffer = PairOwnText(i)

\* invocation 1 is suspended at the yield of a Chunk while invocation 2 is
\* in the middle of its own stream, with other text held in its buffer
C23_Witness ==
    /\ invocations[1].pc = "suspended"
    /\ PairChunkTexts(1) # <<>>
    /\ invocations[2].pc = "waiting"
    /\ invocations[2].buffer # <<>>
    /\ PairOwnText(1) # PairOwnText(2)

(***************************************************************************)
(* C24.  The queue between the worker and the generator is bounded: the    *)
(* worker is held back before everything the run stream delivers is in     *)
(* the queue at once, however many events the stream delivers and even if  *)
(* the generator takes nothing.                                            *)
(***************************************************************************)
C24_QueueBounded == Len(event_queue) < MaxEvents

(***************************************************************************)
(* C25.  The user message is appended to the thread before the run is      *)
(* opened, and the generator takes the events one at a time in the order   *)
(* in which the run stream delivered them: what it has consumed is always  *)
(* an initial part of what was produced.                                   *)
(***************************************************************************)
C25_MessageThenRunThenFifo ==
    /\ \A k \in 1..Len(calls) :
         calls[k].op = "runs.create" =>
            \E j \in 1..(k - 1) :
               calls[j] = [op |-> "messages.create", tid |-> calls[k].tid]
    /\ IsPrefix(consumed, produced)
    /\ Len(produced) = Len(consumed) + Cardinality({k \in 1..Len(event_queue) :
                                                       event_queue[k][1] = "event"})

\* two different events were consumed, a third is still queued
C25_Witness ==
    /\ Len(consumed) = 2
    /\ consumed[1] # consumed[2]
    /\ Len(produced) = 3
    /\ \E k \in 1..Len(calls) : calls[k].op = "runs.create"

(***************************************************************************)
(* C26.  The transcript sent for scoring has one line per message of the   *)
(* request, in the order of the request, each made of "S: " for sender     *)
(* 'user' and "P: " for any other sender, followed by the message text.    *)
(***************************************************************************)
\* the lines of a text: its parts between line breaks, none for no text
RECURSIVE SplitLines(_, _)
SplitLines(text, line) ==
    IF text = <<>> THEN <<line>>
    ELSE IF Head(text) = "\n" THEN <<line>> \o SplitLines(Tail(text), <<>>)
    ELSE SplitLines(Tail(text), Append(line, Head(text)))

LinesOf(text) == IF text = <<>> THEN <<>> ELSE SplitLines(text, <<>>)

ExpectedLine(msg) ==
    (IF msg.sender = "user" THEN <<"S", ":", " ">> ELSE <<"P", ":", " ">>) \o msg.text

C26_OneLinePerMessage ==
    sc_requests = 1 =>
        LinesOf(sc_transcript) = [k \in 1..Len(sc_messages) |-> ExpectedLine(sc_messages[k])]

(***************************************************************************)
(* C27.  While one invocation waits for the next event of a stalled stream *)
(* (its worker alive, its queue empty), another invocation on the same     *)
(* event loop that is due to continue, with events ready in its own queue, *)
(* can be resumed and consume them.                                        *)
(***************************************************************************)
Stalled(i) ==
    /\ invocations[i].pc \in {"waiting", "timedout"}
    /\ invocations[i].event_queue = <<>>
    /\ invocations[i].worker = "streaming"

C27_WaitDoesNotBlockOthers ==
    \A i, j \in PairIds :
        (/\ i # j
         /\ Stalled(i)
         /\ invocations[j].pc = "suspended"
         /\ invocations[j].event_queue # <<>>
         /\ ~IsTerminal(invocations[j].frames[Len(invocations[j].frames)]))
        => ENABLED PairResume(j)

(***************************************************************************)
(* C28.  In sentence mode every Chunk frame carries a text of at least one *)
(* character.                                                              *)
(***************************************************************************)
C28_ChunksNonEmpty ==
    by_sentence => \A k \in 1..Len(frames) : IsChunk(frames[k]) => frames[k].d # <<>>

(***************************************************************************)
(* C29.  In sentence mode no Chunk ends on a boundary character that is    *)
(* directly followed, in the text of the whole stream, by a character that *)
(* is not whitespace, wherever the breaks between the deltas fall.         *)
(***************************************************************************)
C29_NoSplitAcrossDeltas ==
    (by_sentence /\ pc = "ended") =>
        LET text == Flatten(DeltaTexts(consumed))
        IN  \A k \in 1..Len(ChunkTexts) :
               LET p == ChunkEnd(k)
               IN  (p >= 1 /\ p < Len(text)) =>
                      ~(text[p] \in BoundaryChars /\ text[p + 1] \notin SpaceChars)

(***************************************************************************)
(* C30.  When the run stream ends without a thread.run.completed or        *)
(* thread.run.failed event and the worker finishes normally, the           *)
(* invocation yields, in sentence mode, the text left in the buffer as a   *)
(* Chunk, and then exactly one Done frame and no Error frame.              *)
(***************************************************************************)
ExhaustedWithoutTerminal ==
    /\ pc = "ended"
    /\ worker = "finished"
    /\ \A i \in 1..Len(consumed) : ~IsTerminalEvent(consumed[i])

C30_ExhaustionFlushesThenDone ==
    ExhaustedWithoutTerminal =>
        /\ LastFrame = Done(thread_id)
        /\ Count("d") = 1
        /\ Count("e") = 0
        /\ (by_sentence /\ buffer # <<>>) =>
              /\ Len(frames) >= 2
              /\ frames[Len(frames) - 1] = Chunk(buffer, thread_id)

====
